---- MODULE Spec2Model ----
(***************************************************************************)
(* State-machine model of the tensor crate.                                *)
(*                                                                         *)
(*   crates/tensor/src/types.rs : BaseTensor<T>, Tensor<T>, the operators  *)
(*                                `+` (BaseTensor, Tensor) and `-` (Tensor) *)
(*   crates/tensor/src/lib.rs   : AutoGrad, NoExtraInfo, AutogradInfo<T>,  *)
(*                                Tensor<T, G, Q> and Tensor::add          *)
(*                                                                         *)
(* Rc<RefCell<Vec<T>>> buffers are cells of a heap addressed by their      *)
(* allocation number; a BaseTensor holds the number of its buffer, so two  *)
(* tensors alias exactly when they hold the same number.  Element type T   *)
(* is modelled by the integers (the values used stay far from any machine  *)
(* integer's limits).  Vec indices are 0-based in the code and 1-based in  *)
(* the sequences here: code index i is sequence index i + 1.               *)
(***************************************************************************)
EXTENDS Integers, Sequences, FiniteSets, TLC

VARIABLES
    heap,       \* types.rs: the Rc<RefCell<Vec<T>>> buffers allocated so far
    tensors,    \* types.rs: the Tensor<T> values the program holds
    last,       \* types.rs: what the most recent step did
    gradfns,    \* lib.rs: the Rc<dyn GradFunction<T>> objects allocated so far
    gtensors,   \* lib.rs: the Tensor<T, G, Q> values the program holds
    gorigin     \* lib.rs: for each held Tensor<T, G, Q>, the step that made it

vars == <<heap, tensors, last, gradfns, gtensors, gorigin>>

(***************************************************************************)
(* Bounds and input domains                                                *)
(***************************************************************************)
MaxTensors == 3     \* tensors held at once (inputs and results together)
MaxOffset == 1      \* largest offset of a user-built view
MaxGTensors == 4    \* lib.rs tensors held at once (inputs and results)

Shapes == {<<2>>, <<1, 2>>, <<2, 2>>}

RECURSIVE Pow10(_)
Pow10(n) == IF n = 0 THEN 1 ELSE 10 * Pow10(n - 1)

\* the data a program puts in its id-th buffer: 1, 2, 3, .. in the first,
\* 10, 20, 30, .. in the second (the tests' vec![1, 2, 3, 4] and
\* vec![10, 20, 30, 40]), and so on, so that no two positions of any two
\* buffers hold the same value
UserData(id, n) == [i \in 1..n |-> i * Pow10(id - 1)]

RECURSIVE Product(_)
Product(s) == IF s = <<>> THEN 1 ELSE Head(s) * Product(Tail(s))

\* row-major (C-order) strides of a shape: strides[k] = product of shape[k+1..]
default_strides(shape) ==
    [k \in 1..Len(shape) |-> Product(SubSeq(shape, k + 1, Len(shape)))]

Reverse(s) == [k \in 1..Len(s) |-> s[Len(s) + 1 - k]]

\* the strides a view of the given shape is built with: contiguous,
\* transposed (the reversed shape's strides, reversed), stepped (every
\* second element along each axis) and broadcast (one element repeated)
StridesOf(shape) ==
    { default_strides(shape),
      Reverse(default_strides(Reverse(shape))),
      [k \in 1..Len(shape) |-> 2 * default_strides(shape)[k]],
      [k \in 1..Len(shape) |-> 0] }

RECURSIVE SumSeq(_)
SumSeq(s) == IF s = <<>> THEN 0 ELSE Head(s) + SumSeq(Tail(s))

\* the largest storage index (relative to offset) a view selects
max_linear_index(shape, strides) ==
    SumSeq([k \in 1..Len(shape) |-> (shape[k] - 1) * strides[k]])

\* the multi-index (0-based) of linear position i (0-based) in row-major order
Unravel(shape, i) ==
    [k \in 1..Len(shape) |->
        (i \div Product(SubSeq(shape, k + 1, Len(shape)))) % shape[k]]

\* the storage index (0-based) the view selects for linear position i:
\* offset + sum(index[k] * strides[k])
ViewIndex(b, i) ==
    b.offset
    + SumSeq([k \in 1..Len(b.shape) |-> Unravel(b.shape, i)[k] * b.strides[k]])

\* len(shape) == len(strides) and offset + max_linear_index < len(Storage)
ValidView(h, b) ==
    /\ Len(b.shape) = Len(b.strides)
    /\ b.offset + max_linear_index(b.shape, b.strides) < Len(h[b.data])

\* the element the tensor's view selects at linear position i
At(h, b, i) == h[b.data][ViewIndex(b, i) + 1]

(***************************************************************************)
(* types.rs                                                                *)
(***************************************************************************)
\* struct BaseTensor<T> { data, shape, strides, offset }
BaseTensor(d, shape, strides, offset) ==
    [data |-> d, shape |-> shape, strides |-> strides, offset |-> offset]

\* struct Tensor<T> { base }
Tensor(b) == [base |-> b]

\* the outcome of an operator: a result tensor in a fresh buffer, or a panic
Returned(h, reads, data, shape, strides, offset) ==
    [status |-> "ok", reads |-> reads, heap |-> Append(h, data),
     out |-> <<BaseTensor(Len(h) + 1, shape, strides, offset)>>]

Panicked(h, status, reads) ==
    [status |-> status, reads |-> reads, heap |-> h, out |-> <<>>]

\* a shape check that compares only the element counts
ShapesMatch_sizes(ls, rs) == Product(ls) = Product(rs)

\* `if self.shape != rhs.shape { panic!(..) }`
ShapesMatch(ls, rs) == ls = rs

\* an addition loop carrying the subtraction loop's body
RECURSIVE AddLoop_sub(_, _, _, _, _)
AddLoop_sub(left_data, right_data, total_size, i, result_data) ==
    IF i = total_size
    THEN [status |-> "ok", reads |-> 2 * i, data |-> result_data]
    ELSE IF i >= Len(left_data)
    THEN [status |-> "index_panic", reads |-> 2 * i, data |-> <<>>]
    ELSE IF i >= Len(right_data)
    THEN [status |-> "index_panic", reads |-> 2 * i + 1, data |-> <<>>]
    ELSE AddLoop_sub(left_data, right_data, total_size, i + 1,
                     Append(result_data, left_data[i + 1] - right_data[i + 1]))

\* `for i in 0..total_size { result_data.push(left_data[i].add(right_data[i])) }`
\* Vec indexing panics when i is not below the Vec's length; left_data[i] is
\* evaluated before right_data[i].
RECURSIVE AddLoop(_, _, _, _, _)
AddLoop(left_data, right_data, total_size, i, result_data) ==
    IF i = total_size
    THEN [status |-> "ok", reads |-> 2 * i, data |-> result_data]
    ELSE IF i >= Len(left_data)
    THEN [status |-> "index_panic", reads |-> 2 * i, data |-> <<>>]
    ELSE IF i >= Len(right_data)
    THEN [status |-> "index_panic", reads |-> 2 * i + 1, data |-> <<>>]
    ELSE AddLoop(left_data, right_data, total_size, i + 1,
                 Append(result_data, left_data[i + 1] + right_data[i + 1]))

\* impl Add for BaseTensor<T>
BaseTensor_add(h, self, rhs) ==
    IF ~ShapesMatch(self.shape, rhs.shape)
    THEN Panicked(h, "shape_panic", 0)
    ELSE LET total_size == Product(self.shape)
             loop == AddLoop(h[self.data], h[rhs.data], total_size, 0, <<>>)
         IN  IF loop.status # "ok"
             THEN Panicked(h, loop.status, loop.reads)
             ELSE Returned(h, loop.reads, loop.data,
                           self.shape, self.strides, 0)

\* impl Add for Tensor<T>: Tensor { base: self.base + rhs.base }
Tensor_add(h, self, rhs) == BaseTensor_add(h, self.base, rhs.base)

\* `for i in 0..total_size { result_data.push(left_data[i].sub(right_data[i])) }`
RECURSIVE SubLoop(_, _, _, _, _)
SubLoop(left_data, right_data, total_size, i, result_data) ==
    IF i = total_size
    THEN [status |-> "ok", reads |-> 2 * i, data |-> result_data]
    ELSE IF i >= Len(left_data)
    THEN [status |-> "index_panic", reads |-> 2 * i, data |-> <<>>]
    ELSE IF i >= Len(right_data)
    THEN [status |-> "index_panic", reads |-> 2 * i + 1, data |-> <<>>]
    ELSE SubLoop(left_data, right_data, total_size, i + 1,
                 Append(result_data, left_data[i + 1] - right_data[i + 1]))

\* a subtraction that accumulates into the left operand's buffer
Tensor_sub_inplace(h, self, rhs) ==
    IF ~ShapesMatch(self.base.shape, rhs.base.shape)
    THEN Panicked(h, "shape_panic", 0)
    ELSE LET total_size == Product(self.base.shape)
             loop == SubLoop(h[self.base.data], h[rhs.base.data],
                             total_size, 0, <<>>)
         IN  IF loop.status # "ok"
             THEN Panicked(h, loop.status, loop.reads)
             ELSE [status |-> "ok", reads |-> loop.reads,
                   heap |-> [h EXCEPT ![self.base.data] = loop.data],
                   out |-> <<BaseTensor(self.base.data, self.base.shape,
                                        self.base.strides, 0)>>]

\* impl Sub for Tensor<T>
Tensor_sub(h, self, rhs) ==
    IF ~ShapesMatch(self.base.shape, rhs.base.shape)
    THEN Panicked(h, "shape_panic", 0)
    ELSE LET total_size == Product(self.base.shape)
             loop == SubLoop(h[self.base.data], h[rhs.base.data],
                             total_size, 0, <<>>)
         IN  IF loop.status # "ok"
             THEN Panicked(h, loop.status, loop.reads)
             ELSE Returned(h, loop.reads, loop.data,
                           self.base.shape, self.base.strides, 0)

\* a panic unwinds the (single) thread: the program makes no further step
Running == last.status = "ok"

NoStep == [op |-> "none", l |-> 0, r |-> 0, status |-> "ok", reads |-> 0,
           out |-> 0]

\* the program builds a tensor over a new buffer:
\* Tensor { base: BaseTensor { data: Rc::new(RefCell::new(vec![..])), shape,
\* strides, offset } }.  The buffer is as long as the view needs.
MakeTensor ==
    /\ Running
    /\ Len(tensors) < MaxTensors
    /\ \E shape \in Shapes, offset \in 0..MaxOffset :
       \E strides \in StridesOf(shape) :
          LET n == offset + max_linear_index(shape, strides) + 1
              d == UserData(Len(heap) + 1, n)
          IN  /\ heap' = Append(heap, d)
              /\ tensors' = Append(tensors,
                    Tensor(BaseTensor(Len(heap) + 1, shape, strides, offset)))
              /\ last' = [NoStep EXCEPT !.op = "make",
                                        !.out = Len(tensors) + 1]
    /\ UNCHANGED <<gradfns, gtensors, gorigin>>

\* the program builds a second view of a buffer a tensor already holds
\* (Rc::clone of its data), of the same shape with other strides and offset
MakeView ==
    /\ Running
    /\ Len(tensors) < MaxTensors
    /\ \E t \in 1..Len(tensors), offset \in 0..MaxOffset :
       \E strides \in StridesOf(tensors[t].base.shape) :
          LET b == BaseTensor(tensors[t].base.data, tensors[t].base.shape,
                              strides, offset)
          IN  /\ ValidView(heap, b)
              /\ b # tensors[t].base
              /\ tensors' = Append(tensors, Tensor(b))
              /\ last' = [NoStep EXCEPT !.op = "view", !.l = t,
                                        !.out = Len(tensors) + 1]
    /\ UNCHANGED <<heap, gradfns, gtensors, gorigin>>

\* the step an operator call makes: the operands stay held (they were
\* cloned for the call), a returned tensor joins them, a panic leaves none
Apply(op, l, r, res) ==
    /\ heap' = res.heap
    /\ tensors' = IF res.status = "ok"
                  THEN Append(tensors, Tensor(res.out[1]))
                  ELSE tensors
    /\ last' = [op |-> op, l |-> l, r |-> r, status |-> res.status,
                reads |-> res.reads,
                out |-> IF res.status = "ok" THEN Len(tensors) + 1 ELSE 0]

\* left + right
Add ==
    /\ Running
    /\ Len(tensors) < MaxTensors
    /\ \E l \in 1..Len(tensors), r \in 1..Len(tensors) :
          Apply("add", l, r, Tensor_add(heap, tensors[l], tensors[r]))
    /\ UNCHANGED <<gradfns, gtensors, gorigin>>

\* left - right
Sub ==
    /\ Running
    /\ Len(tensors) < MaxTensors
    /\ \E l \in 1..Len(tensors), r \in 1..Len(tensors) :
          Apply("sub", l, r, Tensor_sub(heap, tensors[l], tensors[r]))
    /\ UNCHANGED <<gradfns, gtensors, gorigin>>

Init ==
    /\ heap = <<>>
    /\ tensors = <<>>
    /\ last = NoStep
    /\ gradfns = <<>>
    /\ gtensors = <<>>
    /\ gorigin = <<>>

Next == MakeTensor \/ MakeView \/ Add \/ Sub

Spec == Init /\ [][Next]_vars

(***************************************************************************)
(* lib.rs                                                                  *)
(***************************************************************************)
\* Option<&Rc<dyn GradFunction<f32>>>: None, or Some of a GradFunction's
\* allocation number
None == <<>>
Some(f) == <<f>>

\* pub struct NoExtraInfo; (zero-sized)
NoExtraInfo == [kind |-> "NoExtraInfo"]

\* pub struct AutogradInfo<T> { grad_fn: Rc<dyn GradFunction<T>>, _phantom }
AutogradInfo(f) == [kind |-> "AutogradInfo", grad_fn |-> f]

\* const REQUIRES_GRAD: false for NoExtraInfo, true for AutogradInfo<f32>
REQUIRES_GRAD(g) == g.kind = "AutogradInfo"

\* the two impls' bodies exchanged
get_grad_fn_swapped(g) ==
    IF g.kind = "NoExtraInfo" THEN Some(0) ELSE None

\* an accessor that never finds a gradient function
get_grad_fn_none(g) == None

\* fn get_grad_fn(&self): None for NoExtraInfo, Some(&self.grad_fn) for
\* AutogradInfo<f32>
get_grad_fn(g) ==
    IF g.kind = "NoExtraInfo" THEN None ELSE Some(g.grad_fn)

\* pub struct Tensor<T, G: AutoGrad, Q> { base, grad, quant }
LibTensor(base, grad, quant) == [base |-> base, grad |-> grad, quant |-> quant]

\* a GradFunction object: the operation it stands for and the tensors it
\* recorded ("user" for one the caller supplies)
GradFunction(op, inputs) == [op |-> op, inputs |-> inputs]

\* a state after the operation that is the left operand's state again
get_new_state_after_op_reuse(fns, self, l, r) ==
    [gradfns |-> fns, grad |-> self.grad]

\* G::get_new_state_after_op(self, other): called by Tensor::add and defined
\* nowhere in the sources.  Its result has the operands' capability type G.
\* For a tracking G it constructs the GradFunction of this addition, which
\* records the two input tensors, and attaches it; for NoExtraInfo it does
\* nothing.  l and r are the operands' places among the held tensors.
get_new_state_after_op(fns, self, l, r) ==
    IF REQUIRES_GRAD(self.grad)
    THEN [gradfns |-> Append(fns, GradFunction("add", <<l, r>>)),
          grad |-> AutogradInfo(Len(fns) + 1)]
    ELSE [gradfns |-> fns, grad |-> NoExtraInfo]

\* pub fn add(&self, other: &Self) -> Self
LibTensor_add(fns, self, l, r) ==
    LET state == get_new_state_after_op(fns, self, l, r)
    IN  [gradfns |-> state.gradfns,
         out |-> LibTensor(self.base, state.grad, self.quant)]

\* the program builds an InferenceTensor<T> over a new buffer
NewInference ==
    /\ Len(gtensors) < MaxGTensors
    /\ \E shape \in Shapes :
          gtensors' = Append(gtensors,
              LibTensor(BaseTensor(Len(gtensors) + 1, shape,
                                   default_strides(shape), 0),
                        NoExtraInfo, NoExtraInfo))
    /\ gorigin' = Append(gorigin, [op |-> "new", l |-> 0, r |-> 0])
    /\ UNCHANGED <<heap, tensors, last, gradfns>>

\* the program builds a TrainingTensor<T> over a new buffer; AutogradInfo
\* has no constructor and no optional field, so the program supplies the
\* Rc<dyn GradFunction<T>>: a new object, or a clone of an Rc it holds
NewTraining ==
    /\ Len(gtensors) < MaxGTensors
    /\ \E shape \in Shapes, f \in 1..(Len(gradfns) + 1) :
          /\ gradfns' = IF f > Len(gradfns)
                        THEN Append(gradfns, GradFunction("user", <<>>))
                        ELSE gradfns
          /\ gtensors' = Append(gtensors,
                LibTensor(BaseTensor(Len(gtensors) + 1, shape,
                                     default_strides(shape), 0),
                          AutogradInfo(f), NoExtraInfo))
    /\ gorigin' = Append(gorigin, [op |-> "new", l |-> 0, r |-> 0])
    /\ UNCHANGED <<heap, tensors, last>>

\* left.add(&right); both operands have the one type Self, hence the same
\* capability type G
LibAdd ==
    /\ Len(gtensors) < MaxGTensors
    /\ \E l \in 1..Len(gtensors), r \in 1..Len(gtensors) :
          /\ gtensors[l].grad.kind = gtensors[r].grad.kind
          /\ LET res == LibTensor_add(gradfns, gtensors[l], l, r)
             IN  /\ gradfns' = res.gradfns
                 /\ gtensors' = Append(gtensors, res.out)
          /\ gorigin' = Append(gorigin, [op |-> "add", l |-> l, r |-> r])
    /\ UNCHANGED <<heap, tensors, last>>

NextGrad == NewInference \/ NewTraining \/ LibAdd

SpecGrad == Init /\ [][NextGrad]_vars

(***************************************************************************)
(* Properties of the operators of types.rs                                 *)
(***************************************************************************)
Ops == {"add", "sub"}

\* the operands and the result of the most recent operator call
Left == tensors[last.l].base
Right == tensors[last.r].base
Out == tensors[last.out].base

Positions(shape) == 0..(Product(shape) - 1)

\* C1: for operands of equal shape, a + b returns a tensor of that shape
\* whose storage holds a[i] + b[i] at every linear position i, a[i] and b[i]
\* being the elements the operands' views select
C1_AddOfViewElements ==
    (last.op = "add" /\ Left.shape = Right.shape) =>
        /\ last.status = "ok"
        /\ Out.shape = Left.shape
        /\ Len(heap[Out.data]) = Product(Left.shape)
        /\ \A i \in Positions(Left.shape) :
              heap[Out.data][i + 1] = At(heap, Left, i) + At(heap, Right, i)

\* C2: for operands of equal shape, a - b returns a tensor of that shape
\* whose element at every linear position i is a[i] - b[i], a negative
\* difference being that negative value
C2_SubOfViewElements ==
    (last.op = "sub" /\ Left.shape = Right.shape) =>
        /\ last.status = "ok"
        /\ Out.shape = Left.shape
        /\ Len(heap[Out.data]) = Product(Left.shape)
        /\ \A i \in Positions(Left.shape) :
              heap[Out.data][i + 1] = At(heap, Left, i) - At(heap, Right, i)

\* C3: when the operands' shapes differ (as sequences, rank included), add
\* and subtract fail before any element is read: no result tensor, no new
\* or changed buffer, no tensor changed
C3_ShapeMismatchFailsFirst ==
    [][(/\ last'.op \in Ops
        /\ tensors[last'.l].base.shape # tensors[last'.r].base.shape)
       => (/\ last'.status = "shape_panic"
           /\ last'.reads = 0
           /\ last'.out = 0
           /\ heap' = heap
           /\ tensors' = tensors)]_vars

\* C3 is witnessed by a failed call whose operands differ in rank and hold
\* the same number of elements
C3_Witness ==
    /\ last.op \in Ops
    /\ last.status = "shape_panic"
    /\ Len(Left.shape) # Len(Right.shape)
    /\ Product(Left.shape) = Product(Right.shape)

\* C4: the result of a successful add or subtract has the operands' shape,
\* the row-major contiguous strides of that shape, and offset 0
C4_ResultViewIsContiguous ==
    (last.op \in Ops /\ last.status = "ok") =>
        /\ Out.shape = Left.shape
        /\ Out.strides = default_strides(Left.shape)
        /\ Out.offset = 0

\* C5: add and subtract put their result in a buffer no tensor held before
\* (so it is neither operand's buffer), and leave the length and contents of
\* every existing buffer, every held tensor, and every element any held
\* tensor's view selects, as they were
C5_FreshResultStorage ==
    [][(last'.op \in Ops) =>
        /\ Len(heap') >= Len(heap)
        /\ \A s \in 1..Len(heap) : heap'[s] = heap[s]
        /\ \A t \in 1..Len(tensors) :
              /\ tensors'[t] = tensors[t]
              /\ ValidView(heap, tensors[t].base) =>
                    \A i \in Positions(tensors[t].base.shape) :
                       At(heap', tensors'[t].base, i)
                          = At(heap, tensors[t].base, i)
        /\ (last'.status = "ok") =>
              /\ Len(heap') = Len(heap) + 1
              /\ Len(tensors') = Len(tensors) + 1
              /\ last'.out = Len(tensors')
              /\ tensors'[last'.out].base.data = Len(heap')
              /\ tensors'[last'.out].base.data # tensors[last'.l].base.data
              /\ tensors'[last'.out].base.data # tensors[last'.r].base.data
        /\ (last'.status # "ok") => heap' = heap]_vars

\* C5 is witnessed by a successful subtraction of two different views of one
\* buffer
C5_Witness ==
    /\ last.op = "sub"
    /\ last.status = "ok"
    /\ last.l # last.r
    /\ Left.data = Right.data
    /\ Left # Right
    /\ Out.data \notin {Left.data, Right.data}

\* C9: a + b and b + a end alike (both return or both fail, on a shape
\* mismatch in particular), and when they return, the results have the same
\* shape and hold the same element at every linear position of their storage
C9_AddCommutes ==
    (last.op = "add") =>
        LET ba == Tensor_add(heap, tensors[last.r], tensors[last.l])
        IN  /\ ba.status = last.status
            /\ (last.status = "ok") =>
                  /\ ba.out[1].shape = Out.shape
                  /\ Len(ba.heap[ba.out[1].data]) = Len(heap[Out.data])
                  /\ \A i \in Positions(Out.shape) :
                        ba.heap[ba.out[1].data][i + 1] = heap[Out.data][i + 1]

\* C9 is witnessed by a successful addition of two tensors over different
\* buffers, with different strides
C9_Witness ==
    /\ last.op = "add"
    /\ last.status = "ok"
    /\ Left.data # Right.data
    /\ Left.strides # Right.strides
    /\ heap[Left.data][1] # heap[Right.data][1]

\* C10: every tensor add or subtract returns satisfies the view invariant,
\* len(shape) == len(strides) and
\* offset + max_linear_index(shape, strides) < len(Storage),
\* with len(Storage) the product of the shape's sizes
C10_ResultViewIsValid ==
    (last.op \in Ops /\ last.status = "ok") =>
        /\ ValidView(heap, Out)
        /\ Len(heap[Out.data]) = Product(Out.shape)

(***************************************************************************)
(* Properties of the gradient-tracking state of lib.rs                     *)
(***************************************************************************)
NotTracked(t) == t.grad.kind = "NoExtraInfo"
Tracked(t) == t.grad.kind = "AutogradInfo"

\* C6: a tensor with the NoExtraInfo capability returns None from
\* get_grad_fn, when built by the program and when returned by Tensor::add
\* on such tensors, however long the chain; and once held, it stays a
\* NoExtraInfo tensor
C6_NotTrackedHasNoGradFn ==
    [][/\ \A t \in 1..Len(gtensors') :
             NotTracked(gtensors'[t]) => get_grad_fn(gtensors'[t].grad) = None
       /\ \A t \in 1..Len(gtensors) :
             NotTracked(gtensors[t]) =>
                /\ t <= Len(gtensors')
                /\ NotTracked(gtensors'[t])
       /\ \A t \in 1..Len(gtensors') :
             (gorigin'[t].op = "add" /\ NotTracked(gtensors'[gorigin'[t].l]))
                => /\ NotTracked(gtensors'[t])
                   /\ get_grad_fn(gtensors'[t].grad) = None]_vars

\* C6 is witnessed by a NoExtraInfo tensor returned by an add whose left
\* operand was itself returned by an add
C6_Witness ==
    \E t \in 1..Len(gtensors) :
        /\ gorigin[t].op = "add"
        /\ gorigin[gorigin[t].l].op = "add"
        /\ NotTracked(gtensors[t])
        /\ get_grad_fn(gtensors[t].grad) = None

\* C7: Tensor::add on two AutogradInfo tensors returns a tensor whose
\* get_grad_fn is a GradFunction constructed for this addition: it records
\* the two operands, it is neither operand's GradFunction, and no tensor held
\* before the call has it
C7_AddAttachesNewGradFn ==
    \A t \in 1..Len(gtensors) :
        (gorigin[t].op = "add" /\ Tracked(gtensors[gorigin[t].l])) =>
            LET l == gorigin[t].l
                r == gorigin[t].r
                fn == get_grad_fn(gtensors[t].grad)
            IN  /\ Tracked(gtensors[t])
                /\ fn # None
                /\ fn[1] \in 1..Len(gradfns)
                /\ gradfns[fn[1]] = GradFunction("add", <<l, r>>)
                /\ fn # get_grad_fn(gtensors[l].grad)
                /\ fn # get_grad_fn(gtensors[r].grad)
                /\ \A u \in 1..(t - 1) : get_grad_fn(gtensors[u].grad) # fn

\* C7 is witnessed by the sum of two different AutogradInfo tensors with
\* different GradFunctions
C7_Witness ==
    \E t \in 1..Len(gtensors) :
        /\ gorigin[t].op = "add"
        /\ gorigin[t].l # gorigin[t].r
        /\ Tracked(gtensors[gorigin[t].l])
        /\ Tracked(gtensors[gorigin[t].r])
        /\ gtensors[gorigin[t].l].grad # gtensors[gorigin[t].r].grad
        /\ get_grad_fn(gtensors[t].grad) # None

\* C8 as stated: a tracked tensor the program built itself, with no
\* producing operation, returns None from get_grad_fn
C8_LeafTrackedHasNoGradFn ==
    \A t \in 1..Len(gtensors) :
        (gorigin[t].op = "new" /\ Tracked(gtensors[t])) =>
            get_grad_fn(gtensors[t].grad) = None

\* C8 as amended: every tracked tensor, built by the program or returned by
\* an operation, returns a GradFunction from get_grad_fn (AutogradInfo
\* always holds one), and no held tensor and no GradFunction changes after
\* it is constructed
C8_TrackedAlwaysHasGradFn ==
    [][/\ \A t \in 1..Len(gtensors') :
             Tracked(gtensors'[t]) =>
                /\ get_grad_fn(gtensors'[t].grad) # None
                /\ get_grad_fn(gtensors'[t].grad)[1] \in 1..Len(gradfns')
       /\ \A t \in 1..Len(gtensors) :
             /\ t <= Len(gtensors')
             /\ gtensors'[t] = gtensors[t]
       /\ \A f \in 1..Len(gradfns) :
             /\ f <= Len(gradfns')
             /\ gradfns'[f] = gradfns[f]]_vars

\* C8 (amended) is witnessed by a tracked tensor the program built, still
\* returning its GradFunction after a later addition
C8_Witness ==
    \E t \in 1..Len(gtensors), u \in 1..Len(gtensors) :
        /\ t < u
        /\ gorigin[t].op = "new"
        /\ gorigin[u].op = "add"
        /\ Tracked(gtensors[t])
        /\ get_grad_fn(gtensors[t].grad) # None
        /\ gradfns[get_grad_fn(gtensors[t].grad)[1]].op = "user"

====
